---- MODULE Spec2Model ----
(***************************************************************************)
(* Model of the annotation-to-schema compiler of proxmox-api-macro:        *)
(*   - CliMode::try_from, CommonTypeDefinition::from_object,               *)
(*     ParameterDefinition::from_object / from_expression  (api_def.rs)    *)
(*   - handle_enum                                         (api/enums.rs)  *)
(* Every entry point is a pure, synchronous function of its arguments: one *)
(* macro invocation takes one annotation and returns generated code or one *)
(* error.  The state machine is one invocation: from the idle state one    *)
(* entry point is called on an input drawn from a bounded set, and the     *)
(* state then holds the call, its input and what it returned.              *)
(***************************************************************************)
EXTENDS Naturals, Sequences, FiniteSets

VARIABLES
    op,      \* the entry point that was called, "idle" before the call
    input,   \* the arguments of the call
    output,  \* the Result the call returned
    object   \* the caller's Object after the call (the `&mut Object` argument)

vars == <<op, input, output, object>>

(***************************************************************************)
(* Bounds of the model.                                                    *)
(***************************************************************************)
\* longest annotation Object that is drawn (number of key: value entries)
MaxKeys == 2

\* largest enum that is drawn, counted in syntax nodes: its variants, their
\* attributes and the arguments of the attributes
MaxNodes == 5

(***************************************************************************)
(* Result<T, Error>.  An error is the diagnostic it carries, named as in   *)
(* the error taxonomy; `key` is the key an UnknownKey diagnostic names.    *)
(***************************************************************************)
Ok(v) == [ok |-> TRUE, val |-> v, err |-> "", key |-> ""]

Err(e) == [ok |-> FALSE, val |-> <<>>, err |-> e, key |-> ""]

ErrKey(e, k) == [ok |-> FALSE, val |-> <<>>, err |-> e, key |-> k]

\* Option<T>: None is the empty sequence, Some(v) the one-element sequence.
None == <<>>

Some(v) == <<v>>

(***************************************************************************)
(* Expression (super::parsing): Expression::Expr(syn::Expr) or             *)
(* Expression::Object(Object).  A syn::Expr is a literal (string, integer, *)
(* boolean), a path (an identifier is a one-segment path) or any other     *)
(* expression.  Spans are not modelled: they only place diagnostics.       *)
(***************************************************************************)
LitStr(s) == [kind |-> "lit_str", text |-> s, segments |-> <<>>, entries |-> <<>>]

LitInt(s) == [kind |-> "lit_int", text |-> s, segments |-> <<>>, entries |-> <<>>]

LitBool(b) ==
    [kind |-> "lit_bool", text |-> IF b THEN "true" ELSE "false",
     segments |-> <<>>, entries |-> <<>>]

Path(segs) == [kind |-> "path", text |-> "", segments |-> segs, entries |-> <<>>]

Call(s) == [kind |-> "call", text |-> s, segments |-> <<>>, entries |-> <<>>]

ObjectExpr(es) == [kind |-> "object", text |-> "", segments |-> <<>>, entries |-> es]

\* Expression::Expr(_) as opposed to Expression::Object(_)
IsExpr(e) == e.kind # "object"

\* The values an annotation entry is drawn from.
Values ==
    { LitStr("text"), LitStr("more text"), LitInt("5"), LitBool(TRUE), LitBool(FALSE),
      Path(<<"FromStr">>), Path(<<"mymod">>), Path(<<"other", "func">>),
      Call("f()"), ObjectExpr(<<>>) }

(***************************************************************************)
(* Coercion helpers of Expression.                                         *)
(***************************************************************************)
is_ident(e, name) == e.kind = "path" /\ e.segments = <<name>>

is_lit_bool(e) == IF e.kind = "lit_bool" THEN Ok(e.text = "true") ELSE Err("TypeMismatch")

expect_expr(e) == IF IsExpr(e) THEN Ok(e) ELSE Err("TypeMismatch")

expect_lit_str(e) == IF e.kind = "lit_str" THEN Ok(e) ELSE Err("TypeMismatch")

expect_path(e) == IF e.kind = "path" THEN Ok(e.segments) ELSE Err("TypeMismatch")

(***************************************************************************)
(* Object: an ordered key -> Expression mapping with unique keys, here the *)
(* sequence of its entries in iteration order.                             *)
(***************************************************************************)
Entry(k, v) == [key |-> k, value |-> v]

Keys(obj) == { obj[i].key : i \in 1..Len(obj) }

UniqueKeys(obj) == \A i, j \in 1..Len(obj) : obj[i].key = obj[j].key => i = j

contains_key(obj, k) == k \in Keys(obj)

\* Object::get / Object::remove return the value under the key, if any
ValueOf(obj, k) == obj[CHOOSE i \in 1..Len(obj) : obj[i].key = k].value

get(obj, k) == IF contains_key(obj, k) THEN Some(ValueOf(obj, k)) ELSE None

\* the Object that Object::remove leaves behind
remove(obj, k) == SelectSeq(obj, LAMBDA en : en.key # k)

\* the Object whose i-th entry is ks[i]: vs[i]
MakeObject(ks, vs) == [i \in DOMAIN ks |-> Entry(ks[i], vs[i])]

(***************************************************************************)
(* CliMode and its resolver (api_def.rs 11-42).                            *)
(***************************************************************************)
Disabled == [tag |-> "Disabled", func |-> None]

ParseCli == [tag |-> "ParseCli", func |-> None]

FromStr == [tag |-> "FromStr", func |-> None]

Function(e) == [tag |-> "Function", func |-> Some(e)]

\* impl Default for CliMode
CliMode_default == ParseCli

\* try_from with the fallback branch tried before the boolean check
try_from_expr_first(expr) ==
    IF is_ident(expr, "FromStr")
    THEN Ok(FromStr)
    ELSE IF expect_expr(expr).ok
    THEN Ok(Function(expect_expr(expr).val))
    ELSE IF is_lit_bool(expr).ok
    THEN Ok(IF is_lit_bool(expr).val THEN ParseCli ELSE Disabled)
    ELSE Err("InvalidCliMode")

\* impl TryFrom<Expression> for CliMode.  The only failure is the one that
\* `expect_expr()?` propagates: the value is none of the recognized shapes,
\* which the error taxonomy calls InvalidCliMode.
try_from(expr) ==
    IF is_ident(expr, "FromStr")
    THEN Ok(FromStr)
    ELSE IF is_lit_bool(expr).ok
    THEN Ok(IF is_lit_bool(expr).val THEN ParseCli ELSE Disabled)
    ELSE IF expect_expr(expr).ok
    THEN Ok(Function(expect_expr(expr).val))
    ELSE Err("InvalidCliMode")

(***************************************************************************)
(* CommonTypeDefinition and its builder (api_def.rs 59-86).                *)
(***************************************************************************)
\* CommonTypeDefinitionBuilder::default(): no field set
CommonTypeDefinition_builder == [description |-> None, cli |-> None]

\* build() with `description` defaulted like `cli` instead of required
CommonTypeDefinition_build_defaulted(def) ==
    Ok([description |-> IF def.description = None THEN LitStr("") ELSE def.description[1],
        cli |-> IF def.cli = None THEN CliMode_default ELSE def.cli[1]])

\* CommonTypeDefinitionBuilder::build(): `description` is required, `cli`
\* is #[builder(default)]
CommonTypeDefinition_build(def) ==
    IF def.description = None
    THEN Err("MissingField")
    ELSE Ok([description |-> def.description[1],
             cli |-> IF def.cli = None THEN CliMode_default ELSE def.cli[1]])

\* CommonTypeDefinition::from_object(obj: &mut Object): the pair of the
\* Result and of the Object as the call leaves it.
CommonTypeDefinition_from_object(obj) ==
    LET hasDesc == contains_key(obj, "description")
        obj1    == remove(obj, "description")
        desc    == expect_lit_str(ValueOf(obj, "description"))
        hasCli  == contains_key(obj1, "cli")
        obj2    == remove(obj1, "cli")
        cli     == try_from(ValueOf(obj1, "cli"))
        def1    == [CommonTypeDefinition_builder EXCEPT
                        !.description = IF hasDesc THEN Some(desc.val) ELSE None]
        def2    == [def1 EXCEPT !.cli = IF hasCli THEN Some(cli.val) ELSE None]
    IN  IF hasDesc /\ ~desc.ok
        THEN <<Err(desc.err), obj1>>
        ELSE IF hasCli /\ ~cli.ok
        THEN <<Err(cli.err), obj2>>
        ELSE <<CommonTypeDefinition_build(def2), obj2>>

\* keys of the Objects handed to CommonTypeDefinition::from_object
CommonKeys == { "description", "cli", "type", "fields" }

(***************************************************************************)
(* ParameterDefinition and its builder (api_def.rs 88-205).                *)
(***************************************************************************)
\* ParameterDefinitionBuilder::default(): every field is #[builder(default)]
ParameterDefinition_builder ==
    [default |-> None, description |-> None, maximum |-> None, minimum |-> None,
     maximum_length |-> None, minimum_length |-> None, validate |-> None,
     format |-> None, pattern |-> None,
     serialize_with |-> None, deserialize_with |-> None]

\* ParameterDefinitionBuilder::build(): no field is required, it cannot fail
ParameterDefinition_build(def) == Ok(def)

\* push that puts the segment in front of the path
push_front(segs, ident) == <<ident>> \o segs

\* `segments.push(PathSegment { ident, arguments: None })`
push(segs, ident) == Append(segs, ident)

\* the `"serialization"` arm that leaves a field alone once it is set
serialization_arm_keeps_explicit(def, path) ==
    [def EXCEPT !.deserialize_with = IF @ = None THEN Some(Append(path, "deserialize")) ELSE @,
                !.serialize_with = IF @ = None THEN Some(Append(path, "serialize")) ELSE @]

\* the `"serialization"` arm: de = path::deserialize, ser = path::serialize
serialization_arm(def, path) ==
    [def EXCEPT !.deserialize_with = Some(push(path, "deserialize")),
                !.serialize_with = Some(push(path, "serialize"))]

\* One arm of the `match key.as_str()`: the builder after the entry, or the
\* error the arm returns.
match_key(def, key, value) ==
    LET expr == expect_expr(value)
        lit  == expect_lit_str(value)
        path == expect_path(value)
        set(coerced, field) ==
            IF coerced.ok THEN Ok([def EXCEPT ![field] = Some(coerced.val)])
                          ELSE Err(coerced.err)
    IN  CASE key = "default"          -> set(expr, "default")
          [] key = "description"      -> set(lit, "description")
          [] key = "maximum"          -> set(expr, "maximum")
          [] key = "minimum"          -> set(expr, "minimum")
          [] key = "maximum_length"   -> set(expr, "maximum_length")
          [] key = "minimum_length"   -> set(expr, "minimum_length")
          [] key = "validate"         -> set(expr, "validate")
          [] key = "format"           -> set(path, "format")
          [] key = "pattern"          -> set(expr, "pattern")
          [] key = "serialize_with"   -> set(path, "serialize_with")
          [] key = "deserialize_with" -> set(path, "deserialize_with")
          [] key = "serialization"    ->
                IF path.ok THEN Ok(serialization_arm(def, path.val))
                           ELSE Err(path.err)
          [] OTHER                    -> ErrKey("UnknownKey", key)

RECURSIVE for_key_value_skips_unknown(_, _, _)
\* the loop with unrecognized keys skipped instead of rejected
for_key_value_skips_unknown(def, obj, i) ==
    IF i > Len(obj)
    THEN ParameterDefinition_build(def)
    ELSE LET r == match_key(def, obj[i].key, obj[i].value)
         IN  IF r.ok
             THEN for_key_value_skips_unknown(r.val, obj, i + 1)
             ELSE IF r.err = "UnknownKey"
             THEN for_key_value_skips_unknown(def, obj, i + 1)
             ELSE r

RECURSIVE for_key_value(_, _, _)
\* `for (key, value) in obj { match ... }` from entry i on, then `def.build()`
for_key_value(def, obj, i) ==
    IF i > Len(obj)
    THEN ParameterDefinition_build(def)
    ELSE LET r == match_key(def, obj[i].key, obj[i].value)
         IN  IF r.ok THEN for_key_value(r.val, obj, i + 1) ELSE r

\* ParameterDefinition::from_object(obj)
ParameterDefinition_from_object(obj) ==
    for_key_value(ParameterDefinition_builder, obj, 1)

\* from_expression that takes any literal as the description
ParameterDefinition_from_expression_any_literal(expr) ==
    CASE expr.kind \in {"lit_str", "lit_int", "lit_bool"} ->
            ParameterDefinition_build(
                [ParameterDefinition_builder EXCEPT !.description = Some(expr)])
      [] expr.kind = "object" -> ParameterDefinition_from_object(expr.entries)
      [] OTHER -> Err("ExpectedDescriptionOrDefinition")

\* ParameterDefinition::from_expression(expr)
ParameterDefinition_from_expression(expr) ==
    CASE expr.kind = "lit_str" ->
            ParameterDefinition_build(
                [ParameterDefinition_builder EXCEPT !.description = Some(expr)])
      [] expr.kind \in {"lit_int", "lit_bool"} -> Err("ExpectedDescriptionOrDefinition")
      [] expr.kind = "object" -> ParameterDefinition_from_object(expr.entries)
      [] OTHER -> Err("ExpectedDescriptionOrDefinition")

\* the keys the builder recognizes
RecognizedKeys ==
    { "default", "description", "maximum", "minimum", "maximum_length",
      "minimum_length", "validate", "format", "pattern", "serialize_with",
      "deserialize_with", "serialization" }

\* keys of the Objects handed to ParameterDefinition::from_object
ParameterKeys == RecognizedKeys \cup { "foo", "optional" }

\* values of the entries of these Objects
ParameterValues ==
    { LitStr("text"), LitInt("5"), Path(<<"mymod">>), Path(<<"other", "func">>),
      ObjectExpr(<<>>) }

(***************************************************************************)
(* syn::ItemEnum as handle_enum reads it (api/enums.rs 14-28, 56-83).      *)
(* A variant has an identifier, fields (syn::Fields::Unit, Unnamed or      *)
(* Named) and attributes.  An attribute has a path and tokens; `parses`    *)
(* says whether the tokens are a parenthesized, comma-separated list of    *)
(* syn::NestedMeta (AttrArgs), and `args` is that list.                    *)
(***************************************************************************)
\* syn::NestedMeta::Meta(syn::Meta::NameValue): `path = lit`
NameValue(p, l) == [meta |-> "NameValue", path |-> p, lit |-> l]

\* syn::NestedMeta::Meta(syn::Meta::List): `path(lit)`
List(p, l) == [meta |-> "List", path |-> p, lit |-> l]

\* the arguments an attribute's list is drawn from
NestedMetas ==
    { NameValue("rename", LitStr("bar")), NameValue("rename", LitStr("baz")),
      NameValue("rename", LitInt("1")), NameValue("alias", LitStr("bar")),
      List("rename", LitStr("ser")) }

Attribute(p, ok, as) == [path |-> p, parses |-> ok, args |-> as]

\* the attributes of c syntax nodes: `#[doc = "..."]` and `#[serde = "..."]`,
\* whose tokens are no argument list, and `#[serde(arg, ...)]`
AttributesOfSize(c) ==
    (IF c = 1
     THEN { Attribute("doc", FALSE, <<>>), Attribute("serde", FALSE, <<>>) }
     ELSE {}) \cup
    { Attribute("serde", TRUE, as) : as \in [1..(c - 1) -> NestedMetas] }

RECURSIVE Size(_)
\* the syntax nodes of a list of attributes
Size(attrs) ==
    IF attrs = <<>> THEN 0 ELSE 1 + Len(Head(attrs).args) + Size(Tail(attrs))

RECURSIVE AttributeSeqs(_)
\* the attribute lists of at most b syntax nodes
AttributeSeqs(b) ==
    IF b = 0
    THEN { <<>> }
    ELSE { <<>> } \cup
         UNION { { <<at>> \o rest : at \in AttributesOfSize(c),
                                    rest \in AttributeSeqs(b - c) }
                 : c \in 1..b }

\* the identifiers of an enum's variants, in declaration order
VariantIdents == <<"Foo", "Bar", "Baz", "Qux", "Quux", "Corge", "Grault">>

\* syn::Fields
Fields == { "Unit", "Unnamed", "Named" }

Variant(id, f, as) == [ident |-> id, fields |-> f, attrs |-> as]

RECURSIVE VariantSeqs(_, _)
\* the variant lists, from the i-th identifier on, of at most b syntax nodes
VariantSeqs(i, b) ==
    IF b = 0
    THEN { <<>> }
    ELSE { <<>> } \cup
         UNION { { <<Variant(VariantIdents[i], f, as)>> \o rest :
                       rest \in VariantSeqs(i + 1, b - 1 - Size(as)) }
                 : <<f, as>> \in Fields \X AttributeSeqs(b - 1) }

ItemEnum(vs) == [ident |-> "MyEnum", variants |-> vs]

ItemEnums == { ItemEnum(vs) : vs \in VariantSeqs(1, MaxNodes) }

\* the annotation Objects handed to handle_enum: every choice of keys
AttribKeys == { "description", "type", "format" }

AttribObjects ==
    { SelectSeq(<<Entry("description", LitStr("text")), Entry("type", Path(<<"Integer">>)),
                  Entry("format", Path(<<"mymod">>))>>,
                LAMBDA en : en.key \in ks)
      : ks \in SUBSET AttribKeys }

(***************************************************************************)
(* handle_enum (api/enums.rs 30-102).                                      *)
(***************************************************************************)
\* JSONObject::insert of a key the Object does not hold
insert(obj, k, v) == Append(obj, Entry(k, v))

\* state of the loops: the `variants` list and the `renamed` flag
Loop(vs, r) == [variants |-> vs, renamed |-> r]

RECURSIVE for_arg(_, _, _, _)
\* `for arg in args.args { match arg ... }` from argument k on
for_arg(args, k, variants, renamed) ==
    IF k > Len(args)
    THEN Ok(Loop(variants, renamed))
    ELSE IF args[k].meta = "NameValue" /\ args[k].path = "rename"
    THEN IF args[k].lit.kind = "lit_str"
         THEN for_arg(args, k + 1, Append(variants, args[k].lit), TRUE)
         ELSE Err("TypeMismatch")
    ELSE for_arg(args, k + 1, variants, renamed)

RECURSIVE for_attrib(_, _, _, _)
\* `for attrib in &mut variant.attrs { ... }` from attribute j on
for_attrib(attrs, j, variants, renamed) ==
    IF j > Len(attrs)
    THEN Ok(Loop(variants, renamed))
    ELSE IF attrs[j].path # "serde"
    THEN for_attrib(attrs, j + 1, variants, renamed)
    ELSE IF ~attrs[j].parses
    THEN Err("ParseError")
    ELSE LET r == for_arg(attrs[j].args, 1, variants, renamed)
         IN  IF r.ok
             THEN for_attrib(attrs, j + 1, r.val.variants, r.val.renamed)
             ELSE r

RECURSIVE for_variant_any_fields(_, _, _)
\* the loop without the `match &variant.fields`
for_variant_any_fields(vs, i, variants) ==
    IF i > Len(vs)
    THEN Ok(variants)
    ELSE LET r == for_attrib(vs[i].attrs, 1, variants, FALSE)
         IN  IF ~r.ok
             THEN r
             ELSE IF ~r.val.renamed
             THEN for_variant_any_fields(vs, i + 1, Append(r.val.variants, LitStr(vs[i].ident)))
             ELSE for_variant_any_fields(vs, i + 1, r.val.variants)

RECURSIVE for_variant(_, _, _)
\* `for variant in &mut enum_ty.variants { ... }` from variant i on
for_variant(vs, i, variants) ==
    IF i > Len(vs)
    THEN Ok(variants)
    ELSE IF vs[i].fields # "Unit"
    THEN Err("UnsupportedVariantShape")
    ELSE LET r == for_attrib(vs[i].attrs, 1, variants, FALSE)
         IN  IF ~r.ok
             THEN r
             ELSE IF ~r.val.renamed
             THEN for_variant(vs, i + 1, Append(r.val.variants, LitStr(vs[i].ident)))
             ELSE for_variant(vs, i + 1, r.val.variants)

\* handle_enum with the `format` check after the schema is built
handle_enum_format_after_schema(attribs, enum_ty, schema_builds) ==
    LET attribs1 == IF ~contains_key(attribs, "type")
                    THEN insert(attribs, "type", Path(<<"String">>))
                    ELSE attribs
        names    == for_variant(enum_ty.variants, 1, <<>>)
    IN  IF ~schema_builds
        THEN Err("SchemaError")
        ELSE IF get(attribs1, "format") # None
        THEN Err("ReservedKey")
        ELSE IF ~names.ok
        THEN names
        ELSE Ok([enum_ty |-> enum_ty, name |-> enum_ty.ident,
                 schema |-> attribs1, variants |-> names.val])

\* handle_enum(attribs, enum_ty).  schema_builds: whether the conversion of
\* the Object to a Schema and Schema::to_typed_schema succeed.
handle_enum(attribs, enum_ty, schema_builds) ==
    LET attribs1 == IF ~contains_key(attribs, "type")
                    THEN insert(attribs, "type", Path(<<"String">>))
                    ELSE attribs
        names    == for_variant(enum_ty.variants, 1, <<>>)
    IN  IF get(attribs1, "format") # None
        THEN Err("ReservedKey")
        ELSE IF ~schema_builds
        THEN Err("SchemaError")
        ELSE IF ~names.ok
        THEN names
        ELSE Ok([enum_ty |-> enum_ty, name |-> enum_ty.ident,
                 schema |-> attribs1, variants |-> names.val])

(***************************************************************************)
(* The invocation.                                                         *)
(***************************************************************************)
Init ==
    /\ op = "idle"
    /\ input = <<>>
    /\ output = Err("")
    /\ object = <<>>

\* CliMode::try_from(expr)
CallTryFrom ==
    /\ op = "idle"
    /\ \E expr \in Values :
        /\ op' = "CliMode::try_from"
        /\ input' = expr
        /\ output' = try_from(expr)
        /\ object' = <<>>

\* CommonTypeDefinition::from_object(&mut obj)
CallCommonFromObject ==
    /\ op = "idle"
    /\ \E n \in 0..MaxKeys : \E ks \in [1..n -> CommonKeys], vs \in [1..n -> Values] :
        LET obj == MakeObject(ks, vs) IN
        /\ UniqueKeys(obj)
        /\ op' = "CommonTypeDefinition::from_object"
        /\ input' = obj
        /\ output' = CommonTypeDefinition_from_object(obj)[1]
        /\ object' = CommonTypeDefinition_from_object(obj)[2]

\* ParameterDefinition::from_object(obj)
CallParameterFromObject ==
    /\ op = "idle"
    /\ \E n \in 0..MaxKeys :
       \E ks \in [1..n -> ParameterKeys], vs \in [1..n -> ParameterValues] :
        LET obj == MakeObject(ks, vs) IN
        /\ UniqueKeys(obj)
        /\ op' = "ParameterDefinition::from_object"
        /\ input' = obj
        /\ output' = ParameterDefinition_from_object(obj)
        /\ object' = <<>>

\* ParameterDefinition::from_expression(expr)
CallParameterFromExpression ==
    /\ op = "idle"
    /\ \/ \E expr \in Values :
            /\ op' = "ParameterDefinition::from_expression"
            /\ input' = expr
            /\ output' = ParameterDefinition_from_expression(expr)
            /\ object' = <<>>
       \/ \E n \in 0..MaxKeys :
          \E ks \in [1..n -> ParameterKeys], vs \in [1..n -> ParameterValues] :
            LET expr == ObjectExpr(MakeObject(ks, vs)) IN
            /\ UniqueKeys(expr.entries)
            /\ op' = "ParameterDefinition::from_expression"
            /\ input' = expr
            /\ output' = ParameterDefinition_from_expression(expr)
            /\ object' = <<>>

\* handle_enum(attribs, enum_ty) with the outcome `built` of the Schema
\* conversion, which this file only calls
HandleEnumWith(built) ==
    \E attribs \in AttribObjects, enum_ty \in ItemEnums :
        /\ op' = "handle_enum"
        /\ input' = [attribs |-> attribs, enum_ty |-> enum_ty, schema_builds |-> built]
        /\ output' = handle_enum(attribs, enum_ty, built)
        /\ object' = <<>>

\* handle_enum(attribs, enum_ty): the Schema is built, or it is not
CallHandleEnum ==
    /\ op = "idle"
    /\ \/ HandleEnumWith(TRUE)
       \/ HandleEnumWith(FALSE)

Next ==
    \/ CallHandleEnum
    \/ CallTryFrom
    \/ CallCommonFromObject
    \/ CallParameterFromObject
    \/ CallParameterFromExpression

Spec == Init /\ [][Next]_vars

(***************************************************************************)
(* Claims about handle_enum.                                               *)
(***************************************************************************)
\* what the claims call a recognized rename tag of variant v: the string
\* literals of the `rename = "..."` arguments of its serde attributes
RenameLiterals(v) ==
    UNION { { v.attrs[j].args[k].lit :
                k \in { k \in 1..Len(v.attrs[j].args) :
                          /\ v.attrs[j].args[k].meta = "NameValue"
                          /\ v.attrs[j].args[k].path = "rename"
                          /\ v.attrs[j].args[k].lit.kind = "lit_str" } }
            : j \in { j \in 1..Len(v.attrs) : v.attrs[j].path = "serde" } }

\* a serde attribute of variant v stops handle_enum: its tokens are no
\* argument list, or it gives `rename` a value that is no string literal
StopsAtAttribute(v) ==
    \E j \in 1..Len(v.attrs) :
        /\ v.attrs[j].path = "serde"
        /\ \/ ~v.attrs[j].parses
           \/ \E k \in 1..Len(v.attrs[j].args) :
                /\ v.attrs[j].args[k].meta = "NameValue"
                /\ v.attrs[j].args[k].path = "rename"
                /\ v.attrs[j].args[k].lit.kind # "lit_str"

\* the enum of the call has a variant with fields
HasNonUnit == \E i \in 1..Len(input.enum_ty.variants) : input.enum_ty.variants[i].fields # "Unit"

\* the first variant with fields
FirstNonUnit ==
    CHOOSE i \in 1..Len(input.enum_ty.variants) :
        /\ input.enum_ty.variants[i].fields # "Unit"
        /\ \A h \in 1..(i - 1) : input.enum_ty.variants[h].fields = "Unit"

\* C1: a successful handle_enum on unit variants without a `format` key
\* emits one name per variant in declaration order: the literal of the
\* variant's rename argument if it has one, else the variant's identifier;
\* so a rename changes the entry of its own variant only.
C1_NamesFollowDeclaration ==
    (op = "handle_enum" /\ output.ok) =>
        LET vs    == input.enum_ty.variants
            names == output.val.variants
        IN  /\ Len(names) = Len(vs)
            /\ \A i \in 1..Len(vs) :
                 IF RenameLiterals(vs[i]) = {}
                 THEN names[i] = LitStr(vs[i].ident)
                 ELSE names[i] \in RenameLiterals(vs[i])

\* C2: whenever handle_enum succeeds, the list of resolved names has exactly
\* one name per variant, whatever tags the variants carry.
C2_OneNamePerVariant ==
    (op = "handle_enum" /\ output.ok) =>
        Len(output.val.variants) = Len(input.enum_ty.variants)

\* C3: handle_enum on an annotation with a `format` key always fails with
\* ReservedKey, whatever the other keys, the variants and the schema are.
C3_FormatIsReserved ==
    (op = "handle_enum" /\ contains_key(input.attribs, "format")) =>
        ~output.ok /\ output.err = "ReservedKey"

C3_Witness ==
    /\ op = "handle_enum"
    /\ Keys(input.attribs) = { "format", "description" }
    /\ HasNonUnit
    /\ ~output.ok /\ output.err = "ReservedKey"

\* C4, as claimed: handle_enum on an enum with a non-unit variant always
\* fails with UnsupportedVariantShape.
C4_AlwaysUnsupportedVariantShape ==
    (op = "handle_enum" /\ HasNonUnit) =>
        ~output.ok /\ output.err = "UnsupportedVariantShape"

\* C4, amended: handle_enum on an enum with a non-unit variant always fails
\* and emits nothing; the error is that of the first step that fails:
\* ReservedKey if the annotation has a `format` key, else the schema's error
\* if the base schema cannot be built, else the error of a serde tag (tokens
\* that do not parse, a `rename` value that is no string literal) on a
\* variant declared before the first non-unit variant, and otherwise
\* UnsupportedVariantShape.
C4_FailsAtFirstError ==
    (op = "handle_enum" /\ HasNonUnit) =>
        /\ ~output.ok
        /\ IF contains_key(input.attribs, "format")
           THEN output.err = "ReservedKey"
           ELSE IF ~input.schema_builds
           THEN output.err = "SchemaError"
           ELSE IF \E h \in 1..(FirstNonUnit - 1) : StopsAtAttribute(input.enum_ty.variants[h])
           THEN output.err \in { "ParseError", "TypeMismatch" }
           ELSE output.err = "UnsupportedVariantShape"

C4_Witness ==
    /\ op = "handle_enum"
    /\ ~contains_key(input.attribs, "format")
    /\ input.schema_builds
    /\ Len(input.enum_ty.variants) = 2
    /\ HasNonUnit
    /\ FirstNonUnit = 2
    /\ RenameLiterals(input.enum_ty.variants[1]) # {}
    /\ StopsAtAttribute(input.enum_ty.variants[2])
    /\ ~output.ok /\ output.err = "UnsupportedVariantShape"

(***************************************************************************)
(* Claims about ParameterDefinition.                                       *)
(***************************************************************************)
\* the place of key k in the Object of the call, 0 if it is absent
Position(k) ==
    IF contains_key(input, k) THEN CHOOSE i \in 1..Len(input) : input[i].key = k ELSE 0

\* the value of an entry has the shape from_object requires under its key
ShapeOk(en) ==
    CASE en.key = "description" -> en.value.kind = "lit_str"
      [] en.key \in { "format", "serialize_with", "deserialize_with", "serialization" } ->
            en.value.kind = "path"
      [] OTHER -> en.value.kind # "object"

C6_SerializationIsSugar ==
    (/\ op = "ParameterDefinition::from_object"
     /\ Len(input) = 1
     /\ input[1].key = "serialization"
     /\ input[1].value.kind = "path") =>
        LET P == input[1].value.segments
            expanded == <<Entry("serialize_with", Path(P \o <<"serialize">>)),
                          Entry("deserialize_with", Path(P \o <<"deserialize">>))>>
        IN  /\ output.ok
            /\ ParameterDefinition_from_object(expanded).ok
            /\ output.val = ParameterDefinition_from_object(expanded).val
            /\ output.val = [ParameterDefinition_builder EXCEPT
                                !.serialize_with = Some(P \o <<"serialize">>),
                                !.deserialize_with = Some(P \o <<"deserialize">>)]

C6_Witness ==
    /\ op = "ParameterDefinition::from_object"
    /\ input = <<Entry("serialization", Path(<<"other", "func">>))>>
    /\ output.ok
    /\ output.val.serialize_with = Some(<<"other", "func", "serialize">>)
    /\ output.val.deserialize_with = Some(<<"other", "func", "deserialize">>)

\* the Object of the call has a key from_object does not recognize
HasUnknownKey == \E i \in 1..Len(input) : input[i].key \notin RecognizedKeys

\* the place of the first unrecognized key
FirstUnknownKey ==
    CHOOSE i \in 1..Len(input) :
        /\ input[i].key \notin RecognizedKeys
        /\ \A h \in 1..(i - 1) : input[h].key \in RecognizedKeys

\* C8, as claimed: from_object on an Object with an unrecognized key always
\* fails with UnknownKey naming that key, whatever the other entries are and
\* wherever the key stands.
C8_AlwaysUnknownKey ==
    op = "ParameterDefinition::from_object" =>
        \A i \in 1..Len(input) :
            input[i].key \notin RecognizedKeys =>
                ~output.ok /\ output.err = "UnknownKey" /\ output.key = input[i].key

\* C8, amended: from_object on an Object with an unrecognized key always
\* fails and never returns a definition; the error is that of the first
\* entry, in the order the Object yields its entries, that fails: UnknownKey
\* naming the first unrecognized key if every entry before it has a value of
\* the shape its key requires, and otherwise the TypeMismatch of the first
\* such ill-shaped entry.
C8_FirstFailingEntry ==
    (op = "ParameterDefinition::from_object" /\ HasUnknownKey) =>
        /\ ~output.ok
        /\ IF \A h \in 1..(FirstUnknownKey - 1) : ShapeOk(input[h])
           THEN output.err = "UnknownKey" /\ output.key = input[FirstUnknownKey].key
           ELSE output.err = "TypeMismatch"

C8_Witness ==
    /\ op = "ParameterDefinition::from_object"
    /\ input = <<Entry("description", LitStr("text")), Entry("foo", LitInt("5"))>>
    /\ ~output.ok /\ output.err = "UnknownKey" /\ output.key = "foo"

\* C9: from_expression on a bare string literal S yields the definition of
\* the Object {description: S}: description = S, the ten other fields unset;
\* a bare value that is neither a string literal nor an Object fails.
C9_BareStringIsDescription ==
    op = "ParameterDefinition::from_expression" =>
        /\ input.kind = "lit_str" =>
            /\ output.ok
            /\ output.val = [ParameterDefinition_builder EXCEPT !.description = Some(input)]
            /\ ParameterDefinition_from_object(<<Entry("description", input)>>).ok
            /\ output.val = ParameterDefinition_from_object(<<Entry("description", input)>>).val
        /\ input.kind \notin { "lit_str", "object" } => ~output.ok

C9_Witness ==
    /\ op = "ParameterDefinition::from_expression"
    /\ input = LitStr("more text")
    /\ output.ok
    /\ output.val.description = Some(LitStr("more text"))
    /\ output.val.default = None

(***************************************************************************)
(* Claims about CliMode and CommonTypeDefinition.                          *)
(***************************************************************************)
\* the CliMode the claims assign to a `cli` value that is no Object
Resolved(v) ==
    CASE v = Path(<<"FromStr">>) -> FromStr
      [] v = LitBool(TRUE) -> ParseCli
      [] v = LitBool(FALSE) -> Disabled
      [] OTHER -> Function(v)

\* C7: `FromStr` resolves to FromStr, `true` to ParseCli, `false` to
\* Disabled, any other expression E to Function(E), a value that is none of
\* these fails with InvalidCliMode; a definition built without a `cli` key
\* has cli = ParseCli; a boolean literal never resolves to Function.
C7_CliModeResolution ==
    /\ op = "CliMode::try_from" =>
        /\ input.kind # "object" => output.ok /\ output.val = Resolved(input)
        /\ input.kind = "object" => ~output.ok /\ output.err = "InvalidCliMode"
        /\ input.kind = "lit_bool" => output.ok /\ output.val.tag # "Function"
    /\ (op = "CommonTypeDefinition::from_object" /\ output.ok) =>
        output.val.cli = IF contains_key(input, "cli")
                         THEN Resolved(ValueOf(input, "cli"))
                         ELSE ParseCli

C7_Witness ==
    /\ op = "CommonTypeDefinition::from_object"
    /\ input = <<Entry("cli", LitBool(FALSE)), Entry("description", LitStr("text"))>>
    /\ output.ok
    /\ output.val.cli = Disabled

\* C10, as claimed: from_object on an Object without `description` fails
\* with MissingField, whatever its other keys are, any `cli` value included.
C10_AlwaysMissingField ==
    (op = "CommonTypeDefinition::from_object" /\ ~contains_key(input, "description")) =>
        ~output.ok /\ output.err = "MissingField"

\* C10, amended: from_object on an Object without `description` fails and
\* returns no definition, whatever its other keys are; the error is
\* MissingField unless the Object has a `cli` value that does not resolve,
\* and then it is the resolver's InvalidCliMode, which is returned first.
\* When from_object succeeds, the description is the string literal under
\* `description`, and the Object is left with all its entries but
\* `description` and `cli`, in their order.
C10_MissingDescription ==
    op = "CommonTypeDefinition::from_object" =>
        /\ ~contains_key(input, "description") =>
            /\ ~output.ok
            /\ output.err = IF contains_key(input, "cli") /\ ValueOf(input, "cli").kind = "object"
                            THEN "InvalidCliMode"
                            ELSE "MissingField"
        /\ output.ok =>
            /\ contains_key(input, "description")
            /\ ValueOf(input, "description").kind = "lit_str"
            /\ output.val.description = ValueOf(input, "description")
            /\ object = SelectSeq(input, LAMBDA en : en.key \notin { "description", "cli" })

C10_Witness ==
    /\ op = "CommonTypeDefinition::from_object"
    /\ input = <<Entry("type", Path(<<"mymod">>)), Entry("cli", Path(<<"FromStr">>))>>
    /\ ~output.ok /\ output.err = "MissingField"
    /\ object = <<Entry("type", Path(<<"mymod">>))>>

====
